---- MODULE Spec2Model ----
(***************************************************************************)
(* Model of the chat backend of FIIT-Intern: the four protected routes of  *)
(* Backend/routes/chat.js (POST /text, POST /image, GET /history,          *)
(* DELETE /:id) over the Chat collection of Backend/models/Chat.js.        *)
(*                                                                         *)
(* A handler run is one action, taken where the handler meets the shared    *)
(* chat collection (save; find with countDocuments; findOneAndDelete); the  *)
(* two reads of /history are taken on one state of the collection here.     *)
(* The collaborators' answers (token verification, the generation API's     *)
(* reply, the store's success or failure, the wall clock, the order the     *)
(* store gives to equal timestamps) are inputs of the action.  After a      *)
(* response is sent (Sent) the router is idle and takes the next request.   *)
(*                                                                         *)
(* Further specifications take one part of the program at a finer grain:    *)
(* SpecAwait the chat routes with the generation call in flight, SpecSplit  *)
(* /history with its two reads apart, SpecConnect the connectToDatabase     *)
(* calls of Backend/index.js, SpecClient the AuthProvider of                *)
(* Client/src/context/AuthContext.jsx.                                      *)
(***************************************************************************)
EXTENDS Integers, Sequences, FiniteSets, TLC

VARIABLES
  store,     \* the Chat collection: a set of chat documents
  nextId,    \* the next _id the store hands out (ids are never reused)
  now,       \* the wall clock in milliseconds that stamps createdAt
  creator,   \* history variable: creator[i] is the user whose request made document i
  latest,    \* history variable: latest[u] is the document u's last successful chat
             \* request made, 0 once u has created or deleted a document since
  req,       \* the latest request
  res,       \* the response sent to that request
  calls,     \* the collaborator calls that request's handler made, in order
  hist,      \* a /history handler suspended between Chat.find and
             \* Chat.countDocuments: its request and the list find returned
  NODE_ENV,  \* process.env.NODE_ENV, fixed when the process starts
  isConnected,   \* index.js: the flag connectToDatabase sets and tests
  readyState,    \* mongoose.connection.readyState: 0 disconnected, 1 connected,
                 \* 2 connecting, 3 disconnecting
  routesLoaded,  \* index.js: the flag loadRoutes sets and tests
  caller,        \* caller[p]: the route that made call p and where the call stands
  live,          \* history variable: the calls whose mongoose.connect opened, or is
                 \* opening, a connection that has not been closed since
  state,         \* AuthContext.jsx: the reducer state of AuthProvider
  localStorage,  \* the 'token' item of the browser's localStorage
  Authorization, \* axios.defaults.headers.common['Authorization']
  mounted,       \* the AuthProvider's mount effect has run
  pending        \* the client's calls awaiting the auth server's answer

routerVars == <<store, nextId, now, creator, latest, req, res, calls, hist>>
connVars == <<isConnected, readyState, routesLoaded, caller, live>>

clientVars == <<state, localStorage, Authorization, mounted, pending>>

(* what the chat router never writes *)
notRouter == <<NODE_ENV, connVars, clientVars>>

vars == <<routerVars, NODE_ENV, connVars, clientVars>>

----------------------------------------------------------------------------
(* Bounds of the model *)

MaxChats == 2        \* documents ever created in the main specification
MaxPipeline == 1     \* documents ever created in the pipeline specification
MaxInterleaved == 1  \* documents ever created in the split-read specification
MaxRequests == 2     \* requests to /api/db-status and /api/load-routes besides startup

(* Constants of the program *)

MinPromptLen == 1
MaxPromptLen == 2000
DefaultPage == 1
DefaultLimit == 20

Users == {"A", "B"}
NoUser == "nobody"
Tokens == {"tokA", "tokB", "forged", "none"}

----------------------------------------------------------------------------
(* Strings.  A prompt is kept by its shape: `lead` whitespace characters,   *)
(* then `core` characters that begin and end with a non-whitespace          *)
(* character (core = 0: none), then `trail` whitespace characters.  A       *)
(* missing body field has present = FALSE.                                  *)

Str(l, c, t) == [present |-> TRUE, lead |-> l, core |-> c, trail |-> t]
MissingField == [present |-> FALSE, lead |-> 0, core |-> 0, trail |-> 0]
StrLen(s) == s.lead + s.core + s.trail

TrimStartOnly(s) == Str(0, s.core, s.trail)

(* String.prototype.trim, as the validator's sanitizer and the schema's     *)
(* setter apply it; a missing field is sanitized as the empty string.       *)
Trim(s) == Str(0, s.core, 0)

IsLengthMinOnly(s, min, max) == StrLen(s) >= min

(* isLength({ min, max }) of the validation chain *)
IsLength(s, min, max) == StrLen(s) >= min /\ StrLen(s) <= max

(* middleware/auth: resolves a bearer token to the user it was issued to *)
VerifyToken(tok) ==
  CASE tok = "tokA" -> "A"
    [] tok = "tokB" -> "B"
    [] OTHER -> NoUser

----------------------------------------------------------------------------
(* Responses.  Every response has the same fields, "" / <<>> when absent.   *)

NoUrl == [state |-> "absent", seed |-> 0]
NullUrl == [state |-> "null", seed |-> 0]
PicsumUrlNull(t) == NullUrl
PicsumUrl(t) == [state |-> "url", seed |-> t]

Reply(st, msg, err) ==
  [status |-> st, message |-> msg, error |-> err,
   data |-> <<>>, chats |-> <<>>, pagination |-> <<>>]

Unauthorized == Reply(401, "No token, authorization denied", "")
InvalidInput == Reply(400, "", "Prompt must be 1-2000 characters")

(* what a handler run yields: its response, the collaborator calls it made, *)
(* the documents it saved and the documents it removed                      *)
Run(r, cs, saved, removed) ==
  [res |-> r, calls |-> cs, saved |-> saved, removed |-> removed]

(* one collaborator call: the generation API with the text sent to it, or a *)
(* query of the Chat collection                                             *)
Gemini(template, text) == [to |-> "gemini", template |-> template, text |-> text]
StoreCall(name) == [to |-> name, template |-> "", text |-> Str(0, 0, 0)]

----------------------------------------------------------------------------
(* The generation API's reply, as axios delivers it.                        *)
(* up.status: the HTTP status, 0 when no response arrives (network error).  *)
(* up.shape (status 200): "text" a first candidate with text, "emptytext"   *)
(* a first candidate whose text is "", "nocandidate" an empty candidates    *)
(* list, "nolist" no candidates field at all.                               *)

Upstream(st, sh) == [status |-> st, shape |-> sh]
NotCalled == Upstream(-1, "none")
GeneratedText == "generated text"

Thrown(msg, hasResp, st) ==
  [threw |-> TRUE, message |-> msg, hasResponse |-> hasResp, status |-> st]
Resolved(st) ==
  [threw |-> FALSE, message |-> "", hasResponse |-> TRUE, status |-> st]

(* axios.post with validateStatus: status < 500 (text route) *)
AxiosText(up) ==
  IF up.status = 0 THEN Thrown("Network Error", FALSE, 0)
  ELSE IF up.status < 500 THEN Resolved(up.status)
  ELSE Thrown("Request failed with status code", TRUE, up.status)

(* axios.post with the default validateStatus: 200 <= status < 300 *)
AxiosImage(up) ==
  IF up.status = 0 THEN Thrown("Network Error", FALSE, 0)
  ELSE IF up.status >= 200 /\ up.status < 300 THEN Resolved(up.status)
  ELSE Thrown("Request failed with status code", TRUE, up.status)

(* the text route's catch block *)
TextCatch(err) ==
  IF err.hasResponse /\ err.status = 400
    THEN Reply(400, "Invalid request to Gemini API", err.message)
  ELSE IF err.hasResponse /\ err.status = 401
    THEN Reply(401, "Invalid API key", err.message)
  ELSE IF err.hasResponse /\ err.status = 429
    THEN Reply(429, "Rate limit exceeded", err.message)
  ELSE Reply(500, "Error generating text response", err.message)

(* the image route's catch block *)
ImageCatch(err) == Reply(500, "Error generating image description", err.message)

----------------------------------------------------------------------------
(* The Chat model *)

(* new Chat({...}): the schema trims the prompt, timestamps stamps createdAt *)
NewChat(u, p, r, ty, url, t) ==
  [id |-> nextId, user |-> u, prompt |-> Trim(p), response |-> r, type |-> ty,
   imageUrl |-> url, model |-> "gemini-pro", createdAt |-> t]

(* chat.save(): schema validation (user, prompt and response are required), *)
(* then the insert, which the store may fail                                *)
SaveThrows(doc, storeOk) ==
  \/ doc.prompt.core = 0
  \/ doc.response = ""
  \/ ~storeOk

(* the body of a successful chat response; the text route sends no imageUrl *)
ChatData(chat, url) ==
  [id |-> chat.id, prompt |-> chat.prompt, response |-> chat.response,
   type |-> chat.type, imageUrl |-> url, createdAt |-> chat.createdAt]

ChatOk(msg, chat, url) ==
  [status |-> 200, message |-> msg, error |-> "",
   data |-> <<ChatData(chat, url)>>, chats |-> <<>>, pagination |-> <<>>]

----------------------------------------------------------------------------
(* POST /text *)

(* candidates?.[0]?.content?.parts?.[0]?.text; "" stands for every falsy    *)
(* outcome (undefined or the empty string)                                  *)
TextCandidate(up) == IF up.shape = "text" THEN GeneratedText ELSE ""

(* the handler's body after the validation check *)
TextHandler(u, prompt, up, storeOk, t) ==
  LET ax == AxiosText(up)
      sent == <<Gemini("", prompt)>>
      response == TextCandidate(up)
      chat == NewChat(u, prompt, response, "text", NullUrl, t)
  IN IF ax.threw THEN Run(TextCatch(ax), sent, {}, {})
     ELSE IF ax.status # 200
       THEN Run(TextCatch(Thrown("Failed to get response from Gemini", FALSE, 0)),
                sent, {}, {})
     ELSE IF response = ""
       THEN Run(TextCatch(Thrown("Invalid response format from Gemini API", FALSE, 0)),
                sent, {}, {})
     ELSE IF SaveThrows(chat, storeOk)
       THEN Run(TextCatch(Thrown("Chat validation or save failed", FALSE, 0)),
                sent \o <<StoreCall("Chat.save")>>, {}, {})
     ELSE Run(ChatOk("Text response generated successfully", chat, NoUrl),
              sent \o <<StoreCall("Chat.save")>>, {chat}, {})

(* the route: auth, then the validation chain, then the handler *)
TextRoute(tok, body, up, storeOk, t) ==
  LET u == VerifyToken(tok)
      prompt == Trim(body)
  IN IF u = NoUser THEN Run(Unauthorized, <<>>, {}, {})
     ELSE IF ~IsLength(prompt, MinPromptLen, MaxPromptLen)
       THEN Run(InvalidInput, <<>>, {}, {})
     ELSE TextHandler(u, prompt, up, storeOk, t)

----------------------------------------------------------------------------
(* POST /image *)

(* candidates[0]?.content?.parts[0]?.text || 'No response from Gemini' *)
ImageCandidate(up) ==
  IF up.shape = "text" THEN GeneratedText ELSE "No response from Gemini"

ImageHandler(u, prompt, up, storeOk, t) ==
  LET ax == AxiosImage(up)
      sent == <<Gemini("Describe in vivid detail the image I want", prompt)>>
      response == ImageCandidate(up)
      imageUrl == PicsumUrl(t)
      chat == NewChat(u, prompt, response, "image", imageUrl, t)
  IN IF ax.threw THEN Run(ImageCatch(ax), sent, {}, {})
     ELSE IF up.shape = "nolist"
       THEN Run(ImageCatch(Thrown("Cannot read properties of undefined", FALSE, 0)),
                sent, {}, {})
     ELSE IF SaveThrows(chat, storeOk)
       THEN Run(ImageCatch(Thrown("Chat validation or save failed", FALSE, 0)),
                sent \o <<StoreCall("Chat.save")>>, {}, {})
     ELSE Run(ChatOk("Image description generated successfully", chat, chat.imageUrl),
              sent \o <<StoreCall("Chat.save")>>, {chat}, {})

ImageRoute(tok, body, up, storeOk, t) ==
  LET u == VerifyToken(tok)
      prompt == Trim(body)
  IN IF u = NoUser THEN Run(Unauthorized, <<>>, {}, {})
     ELSE IF ~IsLength(prompt, MinPromptLen, MaxPromptLen)
       THEN Run(InvalidInput, <<>>, {}, {})
     ELSE ImageHandler(u, prompt, up, storeOk, t)

(* the two chat routes by name *)
ChatOps == {"text", "image"}
ChatRoute(op, tok, body, up, storeOk, t) ==
  IF op = "text" THEN TextRoute(tok, body, up, storeOk, t)
  ELSE ImageRoute(tok, body, up, storeOk, t)

----------------------------------------------------------------------------
(* GET /history *)

(* a query-string value: missing, a non-numeric text, or a decimal integer *)
Query(kind, n) == [kind |-> kind, n |-> n]
NoQuery == Query("missing", 0)

(* parseInt(value) || dflt: NaN (missing or non-numeric) and 0 are falsy *)
ParseIntOr(q, dflt) == IF q.kind # "int" \/ q.n = 0 THEN dflt ELSE q.n

FindAnyUser(u) == store

(* Chat.find({ user }) *)
FindByUser(u) == {r \in store : r.user = u}

(* .sort({ createdAt: -1 }): every arrangement of S with createdAt          *)
(* descending; the store fixes no order among equal timestamps              *)
SortedDesc(S) ==
  LET n == Cardinality(S)
  IN {s \in [1..n -> S] :
        /\ \A i, j \in 1..n : i # j => s[i] # s[j]
        /\ \A i, j \in 1..n : i < j => s[i].createdAt >= s[j].createdAt}

SkipLimitFromNext(s, k, n) ==
  LET last == IF k + 1 + n < Len(s) THEN k + 1 + n ELSE Len(s)
  IN IF k + 1 >= Len(s) THEN <<>> ELSE SubSeq(s, k + 2, last)

(* .skip(k).limit(n), k >= 0 and n >= 1 *)
SkipLimit(s, k, n) ==
  LET last == IF k + n < Len(s) THEN k + n ELSE Len(s)
  IN IF k >= Len(s) THEN <<>> ELSE SubSeq(s, k + 1, last)

(* .select('-user') *)
SelectNoUser(r) ==
  [id |-> r.id, prompt |-> r.prompt, response |-> r.response, type |-> r.type,
   imageUrl |-> r.imageUrl, model |-> r.model, createdAt |-> r.createdAt]

Project(s) == [i \in 1..Len(s) |-> SelectNoUser(s[i])]

(* Math.ceil(a / b), b # 0 *)
CeilDiv(a, b) ==
  IF b > 0 THEN (a + b - 1) \div b ELSE -(a \div (-b))

Abs(n) == IF n < 0 THEN -n ELSE n

HistoryOk(page, limit, chats, total) ==
  [status |-> 200, message |-> "Chat history retrieved successfully", error |-> "",
   data |-> <<>>, chats |-> chats,
   pagination |-> <<[current |-> page, total |-> CeilDiv(total, limit),
                     limit |-> limit, count |-> total]>>]

(* order: the arrangement the store's sort produced.  negMode: what the     *)
(* store does with a negative skip or limit: "reject" the query, or "clamp" *)
(* (skip 0, limit |n|).                                                     *)
HistoryHandler(u, pq, lq, storeOk, order, negMode) ==
  LET page == ParseIntOr(pq, DefaultPage)
      limit == ParseIntOr(lq, DefaultLimit)
      skip == (page - 1) * limit
      negative == skip < 0 \/ limit < 0
      chats == SkipLimit(order, IF skip < 0 THEN 0 ELSE skip, Abs(limit))
      total == Cardinality(FindByUser(u))
  IN IF ~storeOk \/ (negative /\ negMode = "reject")
       THEN Run(Reply(500, "Error retrieving chat history", ""),
                <<StoreCall("Chat.find")>>, {}, {})
     ELSE Run(HistoryOk(page, limit, Project(chats), total),
              <<StoreCall("Chat.find"), StoreCall("Chat.countDocuments")>>, {}, {})

HistoryRoute(tok, pq, lq, storeOk, order, negMode) ==
  LET u == VerifyToken(tok)
  IN IF u = NoUser THEN Run(Unauthorized, <<>>, {}, {})
     ELSE HistoryHandler(u, pq, lq, storeOk, order, negMode)

----------------------------------------------------------------------------
(* DELETE /:id *)

FindOneAndDeleteAnyOwner(id, u) == {r \in store : r.id = id}

(* Chat.findOneAndDelete({ _id, user }): the documents the filter matches *)
FindOneAndDelete(id, u) == {r \in store : r.id = id /\ r.user = u}

DeleteHandlerKeeps(u, id, storeOk) ==
  LET chat == FindOneAndDelete(id, u)
  IN IF ~storeOk
       THEN Run(Reply(500, "Error deleting chat", ""),
                <<StoreCall("Chat.findOneAndDelete")>>, {}, {})
     ELSE IF chat = {}
       THEN Run(Reply(404, "Chat not found", ""),
                <<StoreCall("Chat.findOneAndDelete")>>, {}, {})
     ELSE Run(Reply(200, "Chat deleted successfully", ""),
              <<StoreCall("Chat.findOneAndDelete")>>, {}, {})

DeleteHandler(u, id, storeOk) ==
  LET chat == FindOneAndDelete(id, u)
  IN IF ~storeOk
       THEN Run(Reply(500, "Error deleting chat", ""),
                <<StoreCall("Chat.findOneAndDelete")>>, {}, {})
     ELSE IF chat = {}
       THEN Run(Reply(404, "Chat not found", ""),
                <<StoreCall("Chat.findOneAndDelete")>>, {}, {})
     ELSE Run(Reply(200, "Chat deleted successfully", ""),
              <<StoreCall("Chat.findOneAndDelete")>>, {}, chat)

DeleteRouteNoAuth(tok, id, storeOk) == DeleteHandler(VerifyToken(tok), id, storeOk)

DeleteRoute(tok, id, storeOk) ==
  LET u == VerifyToken(tok)
  IN IF u = NoUser THEN Run(Unauthorized, <<>>, {}, {})
     ELSE DeleteHandler(u, id, storeOk)

----------------------------------------------------------------------------
(* index.js: connectToDatabase and its callers.  Call 0 is the loadRoutes()  *)
(* of startup; calls 1..MaxRequests are requests to /api/db-status or        *)
(* /api/load-routes.  A call runs without interruption up to its next await. *)
(* caller[p].pc: "idle" not made yet, "returned" loadRoutes had nothing to   *)
(* do, "reused" returned the open connection, "closing" and "connecting" at  *)
(* the two awaits, "connected" and "failed" after mongoose.connect settled.  *)

Callers == 0..MaxRequests
CallAt(route, pc) == [route |-> route, pc |-> pc]
NotArrived == CallAt("none", "idle")

(* connectToDatabase up to its first await, entered by call p of `route`:    *)
(* reuse the connection, or close whatever connection there is, or connect   *)
(* (MONGODB_URI is set; close() itself does not fail)                        *)
ConnectToDatabase(p, route) ==
  IF isConnected /\ readyState = 1
    THEN /\ caller' = [caller EXCEPT ![p] = CallAt(route, "reused")]
         /\ routesLoaded' = (routesLoaded \/ route # "db-status")
         /\ UNCHANGED <<isConnected, readyState, live>>
  ELSE IF readyState # 0
    THEN /\ caller' = [caller EXCEPT ![p] = CallAt(route, "closing")]
         /\ readyState' = 3
         /\ UNCHANGED <<isConnected, routesLoaded, live>>
  ELSE /\ caller' = [caller EXCEPT ![p] = CallAt(route, "connecting")]
       /\ readyState' = 2
       /\ live' = live \cup {p}
       /\ UNCHANGED <<isConnected, routesLoaded>>

(* loadRoutes(): nothing to do once the routes are loaded *)
LoadRoutes(p, route) ==
  IF routesLoaded
    THEN /\ caller' = [caller EXCEPT ![p] = CallAt(route, "returned")]
         /\ UNCHANGED <<isConnected, readyState, routesLoaded, live>>
  ELSE ConnectToDatabase(p, route)

(* loadRoutes() at the end of the module *)
Startup ==
  /\ caller[0] = NotArrived
  /\ LoadRoutes(0, "startup")
  /\ UNCHANGED <<routerVars, NODE_ENV, clientVars>>

(* GET /api/db-status *)
DbStatus ==
  /\ \E p \in Callers \ {0} :
       /\ caller[p] = NotArrived
       /\ ConnectToDatabase(p, "db-status")
  /\ UNCHANGED <<routerVars, NODE_ENV, clientVars>>

(* GET /api/load-routes *)
LoadRoutesRequest ==
  /\ \E p \in Callers \ {0} :
       /\ caller[p] = NotArrived
       /\ LoadRoutes(p, "load-routes")
  /\ UNCHANGED <<routerVars, NODE_ENV, clientVars>>

(* await mongoose.connection.close() settles: the connection is closed, and  *)
(* the call goes on to mongoose.connect                                      *)
CloseSettles ==
  /\ \E p \in Callers :
       /\ caller[p].pc = "closing"
       /\ caller' = [caller EXCEPT ![p].pc = "connecting"]
       /\ readyState' = 2
       /\ live' = {p}
  /\ UNCHANGED <<isConnected, routesLoaded>>
  /\ UNCHANGED <<routerVars, NODE_ENV, clientVars>>

(* await mongoose.connect(...) settles for call p: connected, or rejected.   *)
(* A call whose connection another call has closed in the meantime does not  *)
(* move readyState.                                                          *)
ConnectSettles ==
  /\ \E p \in Callers, ok \in BOOLEAN :
       /\ caller[p].pc = "connecting"
       /\ caller' = [caller EXCEPT ![p].pc = IF ok THEN "connected" ELSE "failed"]
       /\ isConnected' = ok
       /\ readyState' = IF p \notin live THEN readyState ELSE IF ok THEN 1 ELSE 0
       /\ live' = IF ok THEN live ELSE live \ {p}
       /\ routesLoaded' = (routesLoaded \/ (ok /\ caller[p].route # "db-status"))
  /\ UNCHANGED <<routerVars, NODE_ENV, clientVars>>

NextConnect ==
  \/ Startup
  \/ DbStatus
  \/ LoadRoutesRequest
  \/ CloseSettles
  \/ ConnectSettles

----------------------------------------------------------------------------
(* Client/src/context/AuthContext.jsx: the AuthProvider.  A token is kept as *)
(* the sequence of its dot-separated parts; Null stands for null, for an     *)
(* unset header and for a missing localStorage item.                         *)

Null == <<>>
ClientTokens == {<<"h1", "p1", "s1">>, <<"h2", "p2", "s2">>, <<"garbage">>}

(* token.split('.').length !== 3 *)
BadFormat(token) == Len(token) # 3

Dispatched(type, user, token, message, loading) ==
  [type |-> type, user |-> user, token |-> token, message |-> message,
   loading |-> loading]
LoginSuccess(user, token) == Dispatched("LOGIN_SUCCESS", user, token, "", FALSE)
LoginError(message) == Dispatched("LOGIN_ERROR", "null", Null, message, FALSE)
Logout == Dispatched("LOGOUT", "null", Null, "", FALSE)
SetLoading(loading) == Dispatched("SET_LOADING", "null", Null, "", loading)

authReducer(st, action) ==
  CASE action.type = "LOGIN_SUCCESS" ->
         [user |-> action.user, token |-> action.token, loading |-> FALSE,
          error |-> "null"]
    [] action.type = "LOGIN_ERROR" ->
         [user |-> "null", token |-> Null, loading |-> FALSE,
          error |-> action.message]
    [] action.type = "LOGOUT" ->
         [user |-> "null", token |-> Null, loading |-> FALSE, error |-> "null"]
    [] action.type = "SET_LOADING" -> [st EXCEPT !.loading = action.loading]
    [] OTHER -> st

(* handleLogout() *)
handleLogout ==
  /\ localStorage' = Null
  /\ Authorization' = Null
  /\ state' = authReducer(state, Logout)

(* the mount effect: check the stored token, then fetchUser() or stop loading *)
InitialCheck ==
  /\ ~mounted
  /\ mounted' = TRUE
  /\ IF localStorage # Null
       THEN IF BadFormat(localStorage)
              THEN handleLogout /\ UNCHANGED pending
              ELSE /\ Authorization' = localStorage
                   /\ pending' = pending \cup {"fetchUser"}
                   /\ UNCHANGED <<state, localStorage>>
       ELSE /\ state' = authReducer(state, SetLoading(FALSE))
            /\ UNCHANGED <<localStorage, Authorization, pending>>
  /\ UNCHANGED <<routerVars, NODE_ENV, connVars>>

(* GET /api/auth/me settles: a user, a body without user, 401 (the response  *)
(* interceptor logs out, then the catch does again), or another failure      *)
FetchUserSettles ==
  /\ "fetchUser" \in pending
  /\ pending' = pending \ {"fetchUser"}
  /\ \E answer \in {"user", "nouser", "401", "error"} :
       IF answer = "user"
         THEN /\ state' = authReducer(state, LoginSuccess("user", localStorage))
              /\ UNCHANGED <<localStorage, Authorization>>
         ELSE handleLogout
  /\ UNCHANGED <<mounted, routerVars, NODE_ENV, connVars>>

(* login(...) or register(...) is called and posts to the auth server *)
AuthCall ==
  /\ mounted
  /\ \E op \in {"login", "register"} :
       /\ op \notin pending
       /\ pending' = pending \cup {op}
  /\ UNCHANGED <<state, localStorage, Authorization, mounted, routerVars, NODE_ENV,
                 connVars>>

(* the answers of POST /api/auth/login and /api/auth/register *)
AuthAnswer(kind, token) == [kind |-> kind, token |-> token]
AuthAnswers ==
  {AuthAnswer("ok", t) : t \in ClientTokens}
  \cup {AuthAnswer("incomplete", Null), AuthAnswer("401", Null),
        AuthAnswer("400", Null), AuthAnswer("network", Null)}

(* error.response?.data?.message || error.message *)
AuthMessage(answer) ==
  CASE answer.kind = "ok" -> "Invalid token format"
    [] answer.kind = "incomplete" -> "Invalid response format from server"
    [] answer.kind = "network" -> "Network Error"
    [] OTHER -> "message of the server"

(* the post settles: token and user stored on success; LOGIN_ERROR when the  *)
(* body lacks token or user, when validateToken throws, or when the post     *)
(* failed (on 401 after the response interceptor has logged out)             *)
AuthSettles ==
  /\ \E op \in pending \cap {"login", "register"}, answer \in AuthAnswers :
       /\ pending' = pending \ {op}
       /\ IF answer.kind = "ok" /\ ~BadFormat(answer.token)
            THEN /\ localStorage' = answer.token
                 /\ Authorization' = answer.token
                 /\ state' = authReducer(state, LoginSuccess("user", answer.token))
            ELSE IF answer.kind = "401"
              THEN /\ localStorage' = Null
                   /\ Authorization' = Null
                   /\ state' = authReducer(authReducer(state, Logout),
                                           LoginError(AuthMessage(answer)))
            ELSE /\ state' = authReducer(state, LoginError(AuthMessage(answer)))
                 /\ UNCHANGED <<localStorage, Authorization>>
  /\ UNCHANGED <<mounted, routerVars, NODE_ENV, connVars>>

(* logout from the UI, or the response interceptor on a 401 to any other     *)
(* request of the application                                                *)
LoggedOut ==
  /\ mounted
  /\ handleLogout
  /\ UNCHANGED <<mounted, pending, routerVars, NODE_ENV, connVars>>

NextClient ==
  \/ InitialCheck
  \/ FetchUserSettles
  \/ AuthCall
  \/ AuthSettles
  \/ LoggedOut

----------------------------------------------------------------------------
(* Requests and the inputs they are drawn from *)

Request(op, tok, body, id, pq, lq, up, storeOk, negMode) ==
  [op |-> op, token |-> tok, prompt |-> body, id |-> id, page |-> pq, limit |-> lq,
   upstream |-> up, storeOk |-> storeOk, negMode |-> negMode]

NoRequest ==
  Request("none", "none", MissingField, 0, NoQuery, NoQuery, NotCalled, TRUE, "reject")

AllPrompts ==
  {MissingField, Str(0, 0, 0), Str(2, 0, 0), Str(0, 1, 0), Str(1, 1, 1),
   Str(0, 2000, 0), Str(1, 2000, 1), Str(0, 2001, 0), Str(0, 2001, 1)}
CorePrompts == {Str(0, 0, 0), Str(1, 1, 1)}

AllUpstreams ==
  {Upstream(200, "text"), Upstream(200, "emptytext"), Upstream(200, "nocandidate"),
   Upstream(200, "nolist"), Upstream(400, "error"), Upstream(401, "error"),
   Upstream(429, "error"), Upstream(500, "error"), Upstream(0, "error")}
CoreUpstreams == {Upstream(200, "text"), Upstream(429, "error")}

(* the generation API never answers the call *)
Silent == Upstream(-2, "silent")

(* <<page, limit>> query pairs: in range, unspecified or invalid, negative *)
PageLimitQueries ==
  ({Query("int", 1), Query("int", 2), Query("int", 3)}
     \X {Query("int", 1), Query("int", 2)})
  \cup {<<NoQuery, NoQuery>>, <<Query("text", 0), Query("int", 1)>>,
        <<Query("int", 2), Query("text", 0)>>, <<Query("int", 0), Query("int", 2)>>,
        <<Query("int", 2), Query("int", 0)>>}
  \cup {<<Query("int", -1), Query("int", 1)>>, <<Query("int", 1), Query("int", -1)>>,
        <<Query("int", -1), NoQuery>>}

(* the pairs tried on requests that fail before the query is read or run *)
FewQueries == {<<NoQuery, NoQuery>>, <<Query("int", 2), Query("int", 1)>>}

(* the pairs tried when the two reads of /history are taken apart *)
SplitQueries ==
  {<<NoQuery, NoQuery>>, <<Query("int", 1), Query("int", 1)>>,
   <<Query("int", 2), Query("int", 1)>>}

(* no /history handler is suspended *)
NoHist == [phase |-> "none", req |-> NoRequest, order |-> <<>>]

(* the collaborators a run did not reach gave no answer *)
Called(run, name) == \E i \in 1..Len(run.calls) : run.calls[i].to = name

Idle == req.op = "none"

(* the handler runs for request r and sends its response *)
Respond(r, run, t) ==
  /\ req' = r
  /\ res' = run.res
  /\ calls' = run.calls
  /\ store' = (store \ run.removed) \cup run.saved
  /\ nextId' = nextId + Cardinality(run.saved)
  /\ creator' = IF run.saved = {} THEN creator
                ELSE Append(creator, (CHOOSE c \in run.saved : TRUE).user)
  /\ latest' = LET u == VerifyToken(r.token)
                IN IF run.saved # {}
                     THEN [latest EXCEPT ![u] = nextId]
                   ELSE IF run.removed # {} THEN [latest EXCEPT ![u] = 0]
                   ELSE latest
  /\ now' = t
  /\ hist' = IF r.op = "history" THEN NoHist ELSE hist
  /\ UNCHANGED notRouter

----------------------------------------------------------------------------
(* The state machine *)

(* the router after construction, over an empty collection *)
InitRouter ==
  /\ store = {}
  /\ nextId = 1
  /\ now = 0
  /\ creator = <<>>
  /\ latest = [u \in Users |-> 0]
  /\ req = NoRequest
  /\ res = Reply(0, "", "")
  /\ calls = <<>>
  /\ hist = NoHist

(* index.js as the module starts to load *)
InitConnect ==
  /\ isConnected = FALSE
  /\ readyState = 0
  /\ routesLoaded = FALSE
  /\ caller = [p \in Callers |-> NotArrived]
  /\ live = {}

(* AuthContext.jsx as the page loads, `stored` being what earlier visits may *)
(* have left in localStorage: initialState reads the token from there        *)
InitClient(stored) ==
  /\ localStorage \in stored
  /\ state = [user |-> "null", token |-> localStorage, loading |-> TRUE,
              error |-> "null"]
  /\ Authorization = Null
  /\ mounted = FALSE
  /\ pending = {}

Init ==
  /\ InitRouter
  /\ NODE_ENV \in {"production", "development"}
  /\ InitConnect
  /\ InitClient({Null})

(* a page load in a browser that may hold a token of an earlier visit *)
InitPage ==
  /\ InitRouter
  /\ NODE_ENV = "production"
  /\ InitConnect
  /\ InitClient({Null} \cup ClientTokens)

TextChat(prompts, ups, cap) ==
  /\ Idle
  /\ \E tok \in Tokens, body \in prompts, up \in ups \cup {NotCalled},
        storeOk \in BOOLEAN, t \in {now, now + 1} :
       LET run == TextRoute(tok, body, up, storeOk, t)
       IN /\ (up # NotCalled) <=> Called(run, "gemini")
          /\ ~storeOk => Called(run, "Chat.save")
          /\ t # now => run.saved # {}
          /\ run.saved # {} => nextId <= cap
          /\ Respond(Request("text", tok, body, 0, NoQuery, NoQuery, up,
                             storeOk, "reject"), run, t)

ImageChat(prompts, ups, cap) ==
  /\ Idle
  /\ \E tok \in Tokens, body \in prompts, up \in ups \cup {NotCalled},
        storeOk \in BOOLEAN, t \in {now, now + 1} :
       LET run == ImageRoute(tok, body, up, storeOk, t)
       IN /\ (up # NotCalled) <=> Called(run, "gemini")
          /\ ~storeOk => Called(run, "Chat.save")
          /\ t # now => run.saved # {}
          /\ run.saved # {} => nextId <= cap
          /\ Respond(Request("image", tok, body, 0, NoQuery, NoQuery, up,
                             storeOk, "reject"), run, t)

History ==
  /\ Idle
  /\ \E tok \in Tokens, q \in PageLimitQueries, storeOk \in BOOLEAN,
        negMode \in {"reject", "clamp"} :
       \E order \in SortedDesc(FindByUser(VerifyToken(tok))) :
         LET pq == q[1]
             lq == q[2]
             run == HistoryRoute(tok, pq, lq, storeOk, order, negMode)
         IN /\ ~storeOk => Called(run, "Chat.find") /\ q \in FewQueries
            /\ VerifyToken(tok) = NoUser => q \in FewQueries
            /\ negMode = "clamp" =>
                 /\ Called(run, "Chat.find")
                 /\ storeOk
                 /\ ParseIntOr(pq, DefaultPage) < 1 \/ ParseIntOr(lq, DefaultLimit) < 0
            /\ Respond(Request("history", tok, MissingField, 0, pq, lq, NotCalled,
                               storeOk, negMode), run, now)

Delete ==
  /\ Idle
  /\ \E tok \in Tokens, id \in 1..nextId, storeOk \in BOOLEAN :
       LET run == DeleteRoute(tok, id, storeOk)
       IN /\ ~storeOk => Called(run, "Chat.findOneAndDelete")
          /\ Respond(Request("delete", tok, MissingField, id, NoQuery, NoQuery, NotCalled,
                             storeOk, "reject"), run, now)

(* the response is on the wire and the handler has returned *)
Sent ==
  /\ ~Idle
  /\ res.status # 0
  /\ req' = NoRequest
  /\ res' = Reply(0, "", "")
  /\ calls' = <<>>
  /\ UNCHANGED <<store, nextId, now, creator, latest, hist, notRouter>>

Next ==
  \/ TextChat(CorePrompts, CoreUpstreams, MaxChats)
  \/ ImageChat(CorePrompts, CoreUpstreams, MaxChats)
  \/ History
  \/ Delete
  \/ Sent

Spec == Init /\ [][Next]_vars

NextPipeline ==
  \/ TextChat(AllPrompts, AllUpstreams, MaxPipeline)
  \/ ImageChat(AllPrompts, AllUpstreams, MaxPipeline)
  \/ Sent

SpecPipeline == Init /\ [][NextPipeline]_vars

SpecConnect == Init /\ [][NextConnect]_vars

SpecClient == InitPage /\ [][NextClient]_vars

----------------------------------------------------------------------------
(* GET /history with its two reads apart: await Chat.find(...) and then      *)
(* await Chat.countDocuments(...), other requests running in between.        *)

(* the request arrives and Chat.find answers; the handler is answered at     *)
(* once when auth or the find fails, else it goes on to countDocuments       *)
HistoryFind ==
  /\ Idle
  /\ hist = NoHist
  /\ \E tok \in Tokens, q \in SplitQueries, storeOk \in BOOLEAN :
       \E order \in SortedDesc(FindByUser(VerifyToken(tok))) :
         LET run == HistoryRoute(tok, q[1], q[2], storeOk, order, "reject")
             r == Request("history", tok, MissingField, 0, q[1], q[2], NotCalled,
                          storeOk, "reject")
         IN /\ ~storeOk => Called(run, "Chat.find") /\ q \in FewQueries
            /\ VerifyToken(tok) = NoUser => q \in FewQueries
            /\ IF Called(run, "Chat.countDocuments")
                 THEN /\ hist' = [phase |-> "found", req |-> r, order |-> order]
                      /\ UNCHANGED <<store, nextId, now, creator, latest, req, res,
                                     calls, notRouter>>
                 ELSE Respond(r, run, now)

(* Chat.countDocuments answers on the collection as it is now, and the       *)
(* handler responds with the list found earlier                              *)
HistoryCount ==
  /\ Idle
  /\ hist.phase = "found"
  /\ \E storeOk \in BOOLEAN :
       LET r == [hist.req EXCEPT !.storeOk = storeOk]
           run == HistoryRoute(r.token, r.page, r.limit, storeOk, hist.order, "reject")
       IN Respond(r, run, now)

NextSplit ==
  \/ HistoryFind
  \/ HistoryCount
  \/ TextChat(CorePrompts, CoreUpstreams, MaxInterleaved)
  \/ Delete
  \/ Sent

SpecSplit == Init /\ [][NextSplit]_vars

----------------------------------------------------------------------------
(* The chat routes with the generation call in flight.  axios.post is given  *)
(* no timeout on either route, so the handler resumes only when the          *)
(* generation API answers or the connection fails.                           *)

(* the handler is suspended at await axios.post *)
Pending == req.op \in ChatOps /\ res.status = 0

(* a chat request arrives: auth and validation answer it at once, or the     *)
(* handler posts to the generation API and awaits the answer                 *)
ChatArrives(prompts) ==
  /\ Idle
  /\ \E op \in ChatOps, tok \in Tokens, body \in prompts :
       LET run == ChatRoute(op, tok, body, NotCalled, TRUE, now)
           r == Request(op, tok, body, 0, NoQuery, NoQuery, NotCalled, TRUE, "reject")
       IN IF Called(run, "gemini")
            THEN /\ req' = r
                 /\ res' = Reply(0, "", "")
                 /\ calls' = <<run.calls[1]>>
                 /\ UNCHANGED <<store, nextId, now, creator, latest, hist, notRouter>>
            ELSE Respond(r, run, now)

(* the answer (or a connection error) arrives and the handler runs to its    *)
(* response                                                                  *)
GeminiAnswers(ups, cap) ==
  /\ Pending
  /\ req.upstream = NotCalled
  /\ \E up \in ups, storeOk \in BOOLEAN, t \in {now, now + 1} :
       LET run == ChatRoute(req.op, req.token, req.prompt, up, storeOk, t)
       IN /\ ~storeOk => Called(run, "Chat.save")
          /\ t # now => run.saved # {}
          /\ run.saved # {} => nextId <= cap
          /\ Respond([req EXCEPT !.upstream = up, !.storeOk = storeOk], run, t)

(* the generation API keeps the connection open and never answers *)
GeminiNeverAnswers ==
  /\ Pending
  /\ req.upstream = NotCalled
  /\ req' = [req EXCEPT !.upstream = Silent]
  /\ UNCHANGED <<store, nextId, now, creator, latest, res, calls, hist, notRouter>>

NextAwait ==
  \/ ChatArrives(AllPrompts)
  \/ GeminiAnswers(AllUpstreams, MaxPipeline)
  \/ GeminiNeverAnswers
  \/ Sent

(* every step the server or the generation API can take is eventually taken *)
SpecAwait == Init /\ [][NextAwait]_vars /\ WF_vars(NextAwait)

----------------------------------------------------------------------------
(* Properties *)

ProtectedOps == {"text", "image", "history", "delete"}
Caller == VerifyToken(req.token)
Authenticated == Caller \in Users
ToStore(c) == c.to \in {"Chat.save", "Chat.find", "Chat.countDocuments",
                        "Chat.findOneAndDelete"}
NoGeminiCall == \A i \in 1..Len(calls) : calls[i].to # "gemini"
NoStoreCall == \A i \in 1..Len(calls) : ~ToStore(calls[i])

(* C1: a request to any protected route without a valid bearer token is       *)
(* answered 401; its handling calls neither the generation API nor the chat   *)
(* collection, and the collection is after the request what it was before.    *)
C1_UnauthorizedBeforeAnyCall ==
  [][(req'.op \in ProtectedOps /\ VerifyToken(req'.token) = NoUser) =>
       /\ res'.status = 401
       /\ \A i \in 1..Len(calls') : calls'[i].to # "gemini" /\ ~ToStore(calls'[i])
       /\ store' = store]_vars

C1_Witness ==
  /\ req.op = "delete"
  /\ req.token = "forged"
  /\ res.status = 401
  /\ \E r \in store : r.id = req.id

(* C2: an authenticated text or image request whose prompt, trimmed, has a    *)
(* length outside 1..2000 (a missing prompt included) is answered 400, and    *)
(* its handling neither calls the generation API nor saves a chat.            *)
C2_InvalidPromptRejected ==
  (/\ req.op \in ChatOps
   /\ Authenticated
   /\ \/ ~req.prompt.present
      \/ req.prompt.core < 1
      \/ req.prompt.core > 2000) =>
     /\ res.status = 400
     /\ NoGeminiCall
     /\ NoStoreCall

C2_Witness ==
  /\ req.op = "image"
  /\ Authenticated
  /\ req.prompt = Str(0, 2001, 1)
  /\ res.status = 400

(* C3: on a valid authenticated chat request of either kind, an upstream      *)
(* answer of 429, 401 or 400 reaches the client as the same status, and no    *)
(* chat is saved.                                                             *)
C3_UpstreamStatusPropagates ==
  (/\ req.op \in ChatOps
   /\ Authenticated
   /\ req.upstream.status \in {400, 401, 429}) =>
     /\ res.status = req.upstream.status
     /\ NoStoreCall

StoreIds == {r.id : r \in store}
Mine(u) == {r \in store : creator[r.id] = u}

(* C4: when A asks to delete a document owned by another user B, the document *)
(* stays in the collection and A receives exactly the response A would get    *)
(* for an id no document has: 404 whenever the store answers the query.       *)
C4_DeleteOthersIsNotFound ==
  [][\A r \in store :
       (/\ req'.op = "delete"
        /\ req'.id = r.id
        /\ VerifyToken(req'.token) \in Users \ {r.user}) =>
          /\ r \in store'
          /\ res' = DeleteRoute(req'.token, nextId, req'.storeOk).res
          /\ req'.storeOk => res'.status = 404]_vars

C4_Witness ==
  /\ req.op = "delete"
  /\ Caller = "A"
  /\ \E r \in store : r.id = req.id /\ r.user = "B"
  /\ res.status = 404
  /\ \E r \in store : r.user = "A"

(* C5: every entry of a history response to caller A is a document that a     *)
(* request of A created and that is still in the collection, for every page   *)
(* and page size.                                                             *)
C5_HistoryOnlyOwnLiveRecords ==
  (req.op = "history" /\ res.status = 200) =>
     \A i \in 1..Len(res.chats) :
        /\ res.chats[i].id \in StoreIds
        /\ creator[res.chats[i].id] = Caller

C5_Witness ==
  /\ req.op = "history"
  /\ res.status = 200
  /\ Caller = "A"
  /\ Len(res.chats) >= 1
  /\ \E r \in store : r.user = "B"

(* C6: the first delete of a document by its owner answers 200 and removes    *)
(* that document and no other; a later delete of the same id by the same      *)
(* caller answers 404 and leaves the collection unchanged (the store          *)
(* answering the query in both).                                              *)
C6_DeleteThenNotFound ==
  [][(req'.op = "delete" /\ req'.storeOk /\ VerifyToken(req'.token) \in Users) =>
       /\ \A r \in store :
            (r.id = req'.id /\ r.user = VerifyToken(req'.token)) =>
               res'.status = 200 /\ store' = store \ {r}
       /\ (/\ req'.id < nextId
           /\ creator[req'.id] = VerifyToken(req'.token)
           /\ req'.id \notin StoreIds) =>
              res'.status = 404 /\ store' = store]_vars

C6_Witness ==
  /\ req.op = "delete"
  /\ req.storeOk
  /\ req.id < nextId
  /\ creator[req.id] = Caller
  /\ req.id \notin StoreIds
  /\ res.status = 404
  /\ store # {}

Min(a, b) == IF a < b THEN a ELSE b
Max(a, b) == IF a > b THEN a ELSE b
Range(f) == {f[i] : i \in DOMAIN f}

(* the least k with k * s >= n *)
Pages(n, s) == CHOOSE k \in 0..n : k * s >= n /\ \A j \in 0..n : j * s >= n => k <= j

(* C7: for a caller with N documents and query integers page p >= 1 and       *)
(* limit s >= 1, a history response lists min(s, max(0, N - (p-1)*s))         *)
(* documents of the caller, the i-th of them standing at offset (p-1)*s + i   *)
(* of the caller's documents in descending createdAt order, and reports       *)
(* total pages ceil(N/s) and count N.                                         *)
C7_Pagination ==
     (/\ req.op = "history"
      /\ res.status = 200
      /\ req.page.kind = "int" /\ req.page.n >= 1
      /\ req.limit.kind = "int" /\ req.limit.n >= 1) =>
       LET p == req.page.n
           s == req.limit.n
           mine == {SelectNoUser(r) : r \in Mine(Caller)}
           N == Cardinality(mine)
           Newer(c) == Cardinality({d \in mine : d.createdAt > c.createdAt})
           NotOlder(c) == Cardinality({d \in mine : d.createdAt >= c.createdAt})
       IN /\ Len(res.chats) = Min(s, Max(0, N - (p - 1) * s))
          /\ Range(res.chats) \subseteq mine
          /\ Cardinality(Range(res.chats)) = Len(res.chats)
          /\ \A i \in 1..Len(res.chats) :
                /\ Newer(res.chats[i]) < (p - 1) * s + i
                /\ NotOlder(res.chats[i]) >= (p - 1) * s + i
          /\ res.pagination[1].current = p
          /\ res.pagination[1].limit = s
          /\ res.pagination[1].total = Pages(N, s)
          /\ res.pagination[1].count = N

C7_Witness ==
  /\ req.op = "history"
  /\ res.status = 200
  /\ req.page = Query("int", 2)
  /\ req.limit = Query("int", 1)
  /\ Cardinality(Mine(Caller)) = 2
  /\ Len(res.chats) = 1
  /\ res.pagination[1].total = 2

(* C8: a page or limit query value that is missing, non-numeric, zero or      *)
(* negative is replaced by the default (page 1, limit 20), and the request    *)
(* is answered successfully with those values (the store being up).           *)
C8_InvalidQueryDefaults ==
  (req.op = "history" /\ Authenticated /\ req.storeOk) =>
     /\ res.status = 200
     /\ res.pagination[1].current =
          (IF req.page.kind = "int" /\ req.page.n >= 1 THEN req.page.n ELSE 1)
     /\ res.pagination[1].limit =
          (IF req.limit.kind = "int" /\ req.limit.n >= 1 THEN req.limit.n ELSE 20)

(* C9 as stated: on a successful text request the returned prompt and the     *)
(* saved prompt equal the submitted prompt character for character, that      *)
(* text was sent to the generation API, and the response is non-empty.        *)
C9_PromptVerbatim ==
  (req.op = "text" /\ res.status = 200) =>
     /\ res.data[1].prompt = req.prompt
     /\ \E r \in store : r.id = res.data[1].id /\ r.prompt = req.prompt
     /\ \E i \in 1..Len(calls) : calls[i].to = "gemini" /\ calls[i].text = req.prompt
     /\ res.data[1].response # ""

(* C9 amended: on a successful text request the returned prompt and the       *)
(* saved prompt equal the submitted prompt with its leading and trailing      *)
(* whitespace removed (so verbatim when it has none), that same text was      *)
(* sent to the generation API, and the returned and saved response is the     *)
(* non-empty generated text.                                                  *)
C9_PromptTrimmed ==
  (req.op = "text" /\ res.status = 200) =>
     LET stripped == [present |-> TRUE, lead |-> 0, core |-> req.prompt.core,
                      trail |-> 0]
     IN /\ res.data[1].prompt = stripped
        /\ (req.prompt.lead = 0 /\ req.prompt.trail = 0) => res.data[1].prompt = req.prompt
        /\ \E r \in store : /\ r.id = res.data[1].id
                            /\ r.prompt = stripped
                            /\ r.response = res.data[1].response
        /\ \E i \in 1..Len(calls) : calls[i].to = "gemini" /\ calls[i].text = stripped
        /\ res.data[1].response # ""

C9_Witness ==
  /\ req.op = "text"
  /\ res.status = 200
  /\ req.prompt = Str(1, 2000, 1)
  /\ res.data[1].prompt = Str(0, 2000, 0)

(* C10: a chat request of U that returned success with document r has r in    *)
(* the collection, and a later history request of U for page 1, with no       *)
(* create or delete by U in between, lists r first.                           *)
C10_NewestFirst ==
  /\ (req.op \in ChatOps /\ res.status = 200) =>
       \E r \in store : r.id = res.data[1].id /\ r.user = Caller
  /\ (/\ req.op = "history"
      /\ res.status = 200
      /\ res.pagination[1].current = 1
      /\ res.pagination[1].limit >= 1
      /\ Authenticated
      /\ latest[Caller] # 0) =>
       /\ Len(res.chats) >= 1
       /\ res.chats[1].id = latest[Caller]

(* C11: a successful image request returns, and has saved, a document of type *)
(* "image" with a non-null imageUrl; a successful text request returns a      *)
(* document of type "text" whose imageUrl is absent or null, and the          *)
(* document it saved has imageUrl null.                                       *)
C11_KindAndImageUrl ==
  /\ (req.op = "image" /\ res.status = 200) =>
       /\ res.data[1].type = "image"
       /\ res.data[1].imageUrl.state = "url"
       /\ \E r \in store : /\ r.id = res.data[1].id
                           /\ r.type = "image"
                           /\ r.imageUrl.state = "url"
                           /\ r.imageUrl = res.data[1].imageUrl
  /\ (req.op = "text" /\ res.status = 200) =>
       /\ res.data[1].type = "text"
       /\ res.data[1].imageUrl.state \in {"absent", "null"}
       /\ \E r \in store : /\ r.id = res.data[1].id
                           /\ r.type = "text"
                           /\ r.imageUrl = NullUrl

C11_Witness ==
  /\ req.op = "image"
  /\ res.status = 200
  /\ res.data[1].imageUrl.state = "url"
  /\ \E r \in store : r.type = "text" /\ r.imageUrl = NullUrl

(* C12: on a chat request of either kind, a generation reply without a first  *)
(* candidate text, or with an empty one, makes the request fail with an error *)
(* status and saves nothing; every saved document's response is text the      *)
(* generation API produced.                                                   *)
C12_NoTextNoRecord ==
  /\ (/\ req.op \in ChatOps
      /\ req.upstream.status = 200
      /\ req.upstream.shape # "text") =>
        res.status >= 400
  /\ \A r \in store : r.response = GeneratedText

(* C13: the response to a chat request whose generation succeeded and whose   *)
(* save failed differs, in status or in message, from the response the same   *)
(* request gets when the generation call fails.                               *)
C13_SaveFailureDistinct ==
  (/\ req.op \in ChatOps
   /\ ~req.storeOk
   /\ \E i \in 1..Len(calls) : calls[i].to = "Chat.save") =>
     \A up \in AllUpstreams :
        LET failed == ChatRoute(req.op, req.token, req.prompt, up, TRUE, now)
        IN ~Called(failed, "Chat.save") =>
             <<failed.res.status, failed.res.message>> # <<res.status, res.message>>

(* C14: in production mode no response to a failing chat, history or delete   *)
(* request carries an error detail (raw upstream or internal error text);    *)
(* the detail is sent in non-production mode only.  The validation reply's    *)
(* list of prompt errors is not such a detail.                                *)
C14_ErrorDetailOnlyOutsideProduction ==
  (/\ NODE_ENV = "production"
   /\ req.op \in ProtectedOps
   /\ res.status >= 400
   /\ res # InvalidInput) =>
     res.error = ""

(* C15: every chat request that passed auth and validation is eventually      *)
(* answered, also when the generation API never answers: the silent call is  *)
(* then reported with a server-error status and nothing is saved.            *)
C15_AcceptedChatAnswered ==
  /\ Pending ~> (req.op \in ChatOps /\ res.status # 0)
  /\ (Pending /\ req.upstream = Silent) ~> (res.status >= 500 /\ NoStoreCall)

(* the generation call of request r returned a first candidate with text *)
GenerationSucceeded(r) == r.op \in ChatOps /\ r.upstream = Upstream(200, "text")

(* C16: a step changes the collection only by adding one new document, on a   *)
(* chat request whose generation succeeded, or by removing the one document   *)
(* a delete request of its owner names; failed chats, history reads and       *)
(* deletes by others leave it as it was, no document already there changes,   *)
(* and every document's user is the authenticated user whose request made it. *)
C16_OnlyCreateAndOwnerDelete ==
  [][/\ \/ store' = store
        \/ /\ GenerationSucceeded(req')
           /\ res'.status = 200
           /\ \E c \in store' : /\ c.id \notin StoreIds
                                /\ c.user = VerifyToken(req'.token)
                                /\ store' = store \cup {c}
        \/ /\ req'.op = "delete"
           /\ res'.status = 200
           /\ \E r \in store : /\ r.id = req'.id
                               /\ r.user = VerifyToken(req'.token)
                               /\ store' = store \ {r}
     /\ (req'.op \in ProtectedOps /\ res'.status # 200) => store' = store
     /\ req'.op = "history" => store' = store
     /\ \A r \in store' : r.user \in Users /\ r.user = creator'[r.id]]_vars

(* C17: under every interleaving of connectToDatabase calls the connection   *)
(* is established once and reused: mongoose.connect is never invoked while   *)
(* another call's connection is live or being established, and no call       *)
(* closes a connection that another call opened or is opening.               *)
C17_ConnectOnceNoForeignClose ==
  /\ Cardinality({p \in Callers : caller[p].pc \in {"connecting", "connected"}}) <= 1
  /\ \A p \in Callers : caller[p].pc = "closing" => live \subseteq {p}

(* C18: a history response agrees with one state of the collection, also     *)
(* when chat and delete requests of the same user run between its reads: the *)
(* list's length is min(limit, max(0, count - (page-1)*limit)) for the page, *)
(* limit and count the response reports.                                     *)
C18_HistoryOfOneState ==
  (/\ req.op = "history"
   /\ res.status = 200
   /\ res.pagination[1].current >= 1
   /\ res.pagination[1].limit >= 1) =>
     Len(res.chats) =
       Min(res.pagination[1].limit,
           Max(0, res.pagination[1].count
                    - (res.pagination[1].current - 1) * res.pagination[1].limit))

(* C19: once the mount check has run and no login, register or fetchUser is  *)
(* awaiting its answer, state.token is non-null exactly when a token is in   *)
(* localStorage and the default Authorization header is set.                 *)
C19_TokenHoldersAgree ==
  (mounted /\ pending = {}) =>
     ((state.token # Null) <=> (localStorage # Null /\ Authorization # Null))

====
